---- MODULE Spec2Model ----
(***************************************************************************)
(* Jet image codec of CNNTopTaggingPreprocessing.ipynb:                    *)
(*   get_df_rel        four-vectors -> (pt, eta, phi) relative to slot 0   *)
(*   get_img_array     (pt, eta, phi) -> 40x40 histogram weighted by pt    *)
(*   transform         intensity -> 8-bit code on a logarithmic scale      *)
(*   reverse_transform 8-bit code -> intensity                             *)
(*                                                                         *)
(* Numbers.  A float64 is modelled at reduced precision as a tagged value: *)
(* NaN, +inf, -inf, or a finite fixed-point number counted in units.  An   *)
(* arithmetic expression yields its exact result rounded to the nearest    *)
(* unit (ties to even); a sum of histogram weights is rounded to MantBits  *)
(* significant bits, as a float addition is rounded to 53.                 *)
(***************************************************************************)
EXTENDS Integers, Sequences, FiniteSets, TLC

(***************************************************************************)
(* Bounds of the model                                                     *)
(***************************************************************************)
\* units per natural-log unit in the quantizer's arithmetic
LogPrec == 1024
\* the quantizer's inputs have ln(x) on every InStep-th unit
InStep == 512
\* the inputs reach LogMargin natural-log units below lo and above hi
LogMargin == 1
\* an array handed to transform has 1..MaxCells elements
MaxCells == 2
\* significant bits of a float's mantissa (53 in float64)
MantBits == 10
\* fixed-point units per histogram bin width
SubBin == 5
\* particle slots per jet: range(200), scaled down
NumSlots == 3
\* the table in the file has 0..MaxRows rows
MaxRows == 4
\* preprocess is called with n_examples in 0..MaxExamples
MaxExamples == 4
\* preprocess is called with chunksize in 1..MaxChunk
MaxChunk == 3
\* the tau notebook's df has MaxTaus rows
MaxTaus == 2
\* units of |eta| per bin of EX
EtaSub == 2
\* units of pt per bin of EY
PtSub == 2

(***************************************************************************)
(* Program constants                                                       *)
(***************************************************************************)
\* transform(x, range=(-10, 5)): range[0]
RangeLo == -10
\* transform(x, range=(-10, 5)): range[1]
RangeHi == 5
\* ... * 255 + 1 and (x_uint8 - 1) / 255
Scale == 255
\* np.uint8 holds 0 .. Uint8Mod - 1
Uint8Mod == 256
\* np.histogram2d(..., bins=(40, 40), range=([-1, 1], [-1, 1]))
NBins == 40
\* EX = np.linspace(0, 3, 10): 10 edges in |eta|
NEtaEdges == 10
\* EY = np.linspace(0, 400, 5): 5 edges in pt
NPtEdges == 5

VARIABLES
    pc,        \* position in the notebook's pipeline
    castMode,  \* what the build makes of an out-of-range float -> uint8 cast
    x,         \* the array given to transform: a sequence of intensities
    x_uint8,   \* transform(x)
    x_rev,     \* reverse_transform(x_uint8)
    df,        \* rows read from the table: a label and PX, PY, PZ per slot
    df_rel,    \* get_df_rel(df): a label and PT, ETA, PHI per slot
    x_again,   \* transform(x_rev): a decoded image encoded again
    x_img,     \* get_img_array(df_rel): a 40x40 grid per row
    h5,        \* the rows of the table in the file at df_path
    n_examples,  \* preprocess's argument
    chunksize,   \* preprocess's argument
    start,     \* preprocess's loop variable
    x_chunks,  \* preprocess's list x: the images of the chunks read so far
    y_chunks,  \* preprocess's list y: the labels of the chunks read so far
    x_test,    \* the first array preprocess returns
    y_test,    \* the second array preprocess returns
    df_tau,    \* the tau notebook's df: channel, pt, eta and flag of each tau
    truth_pt,      \* the pt array given to pred_proba_from_hist
    truth_abseta,  \* the |eta| array given to pred_proba_from_hist
    hist_train,    \* the efficiency table given to pred_proba_from_hist
    proba_test,    \* the predicted probabilities, one per tau
    mse        \* what mean_squared_error prints, per dataset number

\* the state of a call of preprocess
chunkVars == <<h5, n_examples, chunksize, start, x_chunks, y_chunks, x_test, y_test>>

\* the state of the tau notebook
tauVars == <<df_tau, truth_pt, truth_abseta, hist_train, proba_test, mse>>

vars == <<pc, castMode, x, x_uint8, x_rev, x_again, df, df_rel, x_img, chunkVars, tauVars>>

\* the tau notebook has not been run
NoTau ==
    /\ df_tau = <<>>
    /\ truth_pt = <<>>
    /\ truth_abseta = <<>>
    /\ hist_train = <<>>
    /\ proba_test = <<>>
    /\ mse = <<>>

\* preprocess has not been called
NoPreprocess ==
    /\ h5 = <<>>
    /\ n_examples = 0
    /\ chunksize = 0
    /\ start = 0
    /\ x_chunks = <<>>
    /\ y_chunks = <<>>
    /\ x_test = <<>>
    /\ y_test = <<>>

(***************************************************************************)
(* Floats                                                                  *)
(***************************************************************************)
Fin(n) == [k |-> "fin", v |-> n]
NaN == [k |-> "nan", v |-> 0]
PInf == [k |-> "inf", v |-> 1]
NInf == [k |-> "inf", v |-> -1]

IsFin(f) == f.k = "fin"
IsNaN(f) == f.k = "nan"
IsInf(f) == f.k = "inf"

\* a / b for b > 0, rounded to the nearest integer, ties to even
RoundDiv(a, b) ==
    LET q == a \div b
        r == a % b
    IN  IF 2 * r < b THEN q
        ELSE IF 2 * r > b THEN q + 1
        ELSE IF q % 2 = 0 THEN q ELSE q + 1

\* a / b for b > 0, truncated toward zero (C's float -> integer conversion)
TruncDiv(a, b) == IF a >= 0 THEN a \div b ELSE -((-a) \div b)

\* a / b for b # 0, rounded to the nearest integer
RoundDivS(a, b) == IF b > 0 THEN RoundDiv(a, b) ELSE RoundDiv(-a, -b)

\* units per 1.0 of a finite float: the bin width 2/40 is SubBin units
Prec == (NBins \div 2) * SubBin

RECURSIVE Pow2(_)
Pow2(n) == IF n = 0 THEN 1 ELSE 2 * Pow2(n - 1)

\* the first float whose neighbours are 2 units apart
Big == Pow2(MantBits)

\* the spacing of the floats around a non-negative n: 1 while n fits MantBits bits
RECURSIVE Ulp(_)
Ulp(n) == IF n < Big THEN 1 ELSE 2 * Ulp(n \div 2)

\* n rounded to MantBits significant bits, ties to even
RoundSig(n) ==
    IF n < 0 THEN -(Ulp(-n) * RoundDiv(-n, Ulp(-n)))
    ELSE Ulp(n) * RoundDiv(n, Ulp(n))

Sign(n) == IF n < 0 THEN -1 ELSE IF n > 0 THEN 1 ELSE 0

FNeg(a) == IF IsNaN(a) THEN NaN ELSE [k |-> a.k, v |-> -a.v]

\* a + b as IEEE 754 adds: inf - inf is NaN
FAdd(a, b) ==
    IF IsNaN(a) \/ IsNaN(b) THEN NaN
    ELSE IF IsInf(a) /\ IsInf(b) THEN (IF a.v = b.v THEN a ELSE NaN)
    ELSE IF IsInf(a) THEN a
    ELSE IF IsInf(b) THEN b
    ELSE Fin(RoundSig(a.v + b.v))

FSub(a, b) == FAdd(a, FNeg(b))

\* a ** 2
FSquare(a) ==
    IF IsNaN(a) THEN NaN
    ELSE IF IsInf(a) THEN PInf
    ELSE Fin(RoundSig(RoundDiv(a.v * a.v, Prec)))

\* a / b as IEEE 754 divides: 0/0 and inf/inf are NaN, x/0 is +-inf (the zero
\* divisors of get_df_rel are +0.0, the square root of a sum of squares)
FDiv(a, b) ==
    IF IsNaN(a) \/ IsNaN(b) THEN NaN
    ELSE IF IsInf(a) /\ IsInf(b) THEN NaN
    ELSE IF IsInf(a) THEN (IF a.v * Sign(b.v) < 0 THEN NInf ELSE PInf)
    ELSE IF IsInf(b) THEN Fin(0)
    ELSE IF b.v = 0 THEN (IF a.v = 0 THEN NaN ELSE IF a.v < 0 THEN NInf ELSE PInf)
    ELSE Fin(RoundSig(RoundDivS(a.v * Prec, b.v)))

\* the largest c in lo..hi with c * c <= n
RECURSIVE SqrtFloor(_, _, _)
SqrtFloor(n, lo, hi) ==
    IF lo >= hi THEN lo
    ELSE LET mid == (lo + hi + 1) \div 2
         IN  IF mid * mid <= n THEN SqrtFloor(n, mid, hi) ELSE SqrtFloor(n, lo, mid - 1)

\* the integer nearest to the square root of n, 0 <= n <= max * max
SqrtRound(n, max) ==
    LET r == SqrtFloor(n, 0, max)
    IN  IF n - r * r <= r THEN r ELSE r + 1

\* np.sqrt
FSqrt(a) ==
    IF IsNaN(a) THEN NaN
    ELSE IF IsInf(a) THEN (IF a.v > 0 THEN PInf ELSE NaN)
    ELSE IF a.v < 0 THEN NaN
    ELSE Fin(RoundSig(SqrtRound(a.v * Prec, a.v + Prec)))

\* arcsin at 0, 1/4, 1/2, 3/4, 1 in thousandths
ArcSinKnots == <<0, 253, 524, 848, 1571>>
\* arcsinh at 0, 1, 2, ..., 8 in thousandths
ArcSinhKnots == <<0, 881, 1444, 1818, 2095, 2312, 2492, 2644, 2776>>

\* the piecewise linear function through knots spaced step units apart, at
\* t >= 0 units, in units; past the last knot the last segment continues
Interpolate(knots, step, t) ==
    LET n == Len(knots) - 1
        i == IF t \div step >= n THEN n - 1 ELSE t \div step
        lo == knots[i + 1]
        hi == knots[i + 2]
        milli == lo + RoundDiv((hi - lo) * (t - i * step), step)
    IN  RoundDiv(milli * Prec, 1000)

\* np.arcsin: NaN outside [-1, 1]; odd
ArcSin(a) ==
    IF ~IsFin(a) THEN NaN
    ELSE IF a.v > Prec \/ a.v < -Prec THEN NaN
    ELSE IF a.v < 0 THEN Fin(-Interpolate(ArcSinKnots, Prec \div 4, -a.v))
    ELSE Fin(Interpolate(ArcSinKnots, Prec \div 4, a.v))

\* np.arcsinh: arcsinh(+-inf) = +-inf; odd
ArcSinh(a) ==
    IF ~IsFin(a) THEN a
    ELSE IF a.v < 0 THEN Fin(-Interpolate(ArcSinhKnots, Prec, -a.v))
    ELSE Fin(Interpolate(ArcSinhKnots, Prec, a.v))

(***************************************************************************)
(* Quantizer: transform and reverse_transform                              *)
(*                                                                         *)
(* An intensity is 0 or a positive float, named by its natural logarithm   *)
(* in units of 1/LogPrec.  np.log and np.exp move between an intensity and *)
(* its logarithm; the arithmetic around them is rounded to the unit.       *)
(***************************************************************************)
Zero == [k |-> "zero", ln |-> 0]
Pos(l) == [k |-> "pos", ln |-> l]

LoU == RangeLo * LogPrec
HiU == RangeHi * LogPrec

\* np.log(x): -inf at 0
NpLog(a) == IF a.k = "zero" THEN NInf ELSE Fin(a.ln)

\* np.exp(l) of a finite l: a positive float
NpExp(l) == Pos(l)

\* (np.log(x) - range[0]) / (range[1] - range[0]) * 255 + 1, in units of 1/LogPrec
Map_1_255(a) ==
    LET l == NpLog(a)
    IN  IF IsFin(l)
        THEN Fin(RoundDiv((l.v - LoU) * Scale, RangeHi - RangeLo) + LogPrec)
        ELSE l

\* np.where(x != 0, map_1_255, 0)
WhereNonZero(a) == IF a.k # "zero" THEN Map_1_255(a) ELSE Fin(0)

\* .astype(np.uint8) of a finite float v (units of 1/LogPrec): the fraction is
\* dropped; a value that then fits 0..255 is the result, any other is undefined
\* behaviour of the C cast: the build either keeps the low 8 bits of the integer
\* ("wrap") or saturates ("saturate").
AsUint8(v, mode) ==
    LET t == TruncDiv(v.v, LogPrec)
    IN  IF t >= 0 /\ t < Uint8Mod THEN t
        ELSE IF mode = "wrap" THEN t % Uint8Mod
        ELSE IF t < 0 THEN 0 ELSE Uint8Mod - 1

transform(a, mode) == AsUint8(WhereNonZero(a), mode)

\* np.exp((x_uint8 - 1) / 255 * (range[1] - range[0]) + range[0]); x_uint8 - 1 is
\* uint8 arithmetic and wraps 0 - 1 to 255
Reverse_map_1_255(q) ==
    LET q1 == (q - 1) % Uint8Mod
    IN  NpExp(RoundDiv(q1 * (HiU - LoU), Scale) + LoU)

\* reverse_transform without its np.where mask
reverse_transform_unmasked(q) == Reverse_map_1_255(q)

\* np.where(x_uint8 != 0, reverse_map_1_255, 0)
reverse_transform(q) == IF q # 0 THEN Reverse_map_1_255(q) ELSE Zero

(***************************************************************************)
(* The notebook's use of the quantizer                                     *)
(***************************************************************************)
\* the logarithms of the inputs: every InStep-th unit from LogMargin below lo to
\* LogMargin above hi, and lo and hi with the floats next to them
InputLogs ==
    {l \in (LoU - LogMargin * LogPrec) .. (HiU + LogMargin * LogPrec) :
        l % InStep = 0 \/ l \in (LoU - 1) .. (LoU + 1) \/ l \in (HiU - 1) .. (HiU + 1)}

Intensities == {Zero} \cup {Pos(l) : l \in InputLogs}

Arrays == UNION {[1..n -> Intensities] : n \in 1..MaxCells}

CastModes == {"wrap", "saturate"}

InitCodec ==
    /\ pc = "input"
    /\ castMode \in CastModes
    /\ x \in Arrays
    /\ x_uint8 = <<>>
    /\ x_rev = <<>>
    /\ x_again = <<>>
    /\ df = <<>>
    /\ df_rel = <<>>
    /\ x_img = <<>>
    /\ NoTau
    /\ NoPreprocess

\* x_uint8 = transform(x)
Transform ==
    /\ pc = "input"
    /\ x_uint8' = [i \in 1..Len(x) |-> transform(x[i], castMode)]
    /\ pc' = "encoded"
    /\ UNCHANGED <<castMode, x_again, x, x_rev, df, df_rel, x_img, chunkVars, tauVars>>

\* x_rev = reverse_transform(x_uint8)
ReverseTransform ==
    /\ pc = "encoded"
    /\ x_rev' = [i \in 1..Len(x_uint8) |-> reverse_transform(x_uint8[i])]
    /\ pc' = "decoded"
    /\ UNCHANGED <<castMode, x_again, x, x_uint8, df, df_rel, x_img, chunkVars, tauVars>>

NextCodec == Transform \/ ReverseTransform

SpecCodec == InitCodec /\ [][NextCodec]_vars

(***************************************************************************)
(* Claims about the quantizer                                              *)
(***************************************************************************)
Encoded == pc \in {"encoded", "decoded"}

\* exp(lo) <= x <= exp(hi), x > 0
InRange(a) == a.k = "pos" /\ LoU <= a.ln /\ a.ln <= HiU

Abs(n) == IF n < 0 THEN -n ELSE n

\* C1: for every x with exp(lo) <= x <= exp(hi), both endpoints included,
\* reverse_transform(transform(x)) is a positive value whose logarithm differs from
\* ln(x) by at most one step (hi - lo) / 255 of the logarithmic scale.
C1_RoundTripWithinStep ==
    pc = "decoded" =>
        \A i \in 1..Len(x) :
            InRange(x[i]) =>
                /\ x_rev[i].k = "pos"
                /\ Scale * Abs(x_rev[i].ln - x[i].ln) <= HiU - LoU

\* C2: every code is in 0..255, and a code is 0 if and only if the intensity is 0.
C2_ZeroCodeOnlyForZero ==
    Encoded =>
        \A i \in 1..Len(x) :
            /\ x_uint8[i] \in 0..(Uint8Mod - 1)
            /\ (x_uint8[i] = 0) <=> (x[i] = Zero)

\* C3: transform(0) = 0 and reverse_transform(0) = 0 per element, so an image
\* whose cells are all 0 decodes to an image whose cells are all 0.
C3_ZeroRoundTrips ==
    /\ Encoded => \A i \in 1..Len(x) : (x[i] = Zero => x_uint8[i] = 0)
    /\ pc = "decoded" =>
           /\ Len(x_rev) = Len(x)
           /\ \A i \in 1..Len(x) : (x_uint8[i] = 0 => x_rev[i] = Zero)
           /\ (\A i \in 1..Len(x) : x[i] = Zero) =>
                  (\A i \in 1..Len(x) : x_rev[i] = Zero)

\* C3's case: an all-zero image of the largest size has been encoded and decoded.
C3_Witness ==
    /\ pc = "decoded"
    /\ Len(x) = MaxCells
    /\ \A i \in 1..Len(x) : x[i] = Zero /\ x_uint8[i] = 0 /\ x_rev[i] = Zero

\* C4: for every x > 0 with lo <= ln(x) <= hi, transform(x) lies in 1..255 and is
\* the value (ln(x) - lo) / (hi - lo) * 255 + 1 rounded to an integer (less than 1
\* away from it).
C4_CodeInOneTo255 ==
    Encoded =>
        \A i \in 1..Len(x) :
            InRange(x[i]) =>
                /\ x_uint8[i] \in 1..(Uint8Mod - 1)
                /\ Abs(x_uint8[i] * LogPrec - Map_1_255(x[i]).v) < LogPrec

\* C5: for all x, y with 0 < x <= y, transform(x) <= transform(y).
C5_Monotonic ==
    Encoded =>
        \A i, j \in 1..Len(x) :
            (x[i].k = "pos" /\ x[j].k = "pos" /\ x[i].ln <= x[j].ln) =>
                x_uint8[i] <= x_uint8[j]

(***************************************************************************)
(* Coordinate transform: get_df_rel                                        *)
(*                                                                         *)
(* A row of df is a label and, per slot, the momentum (PX, PY, PZ) of a    *)
(* particle (the energy column is never read).  pandas works on the        *)
(* columns of all rows at once; the rows do not interact.                  *)
(***************************************************************************)
Slots == 1..NumSlots

\* first loop: PT_i, ETA_i, PHI_i of one particle
Kinematics(p) ==
    LET pt == FSqrt(FAdd(FSquare(p.PX), FSquare(p.PY)))
    IN  [PT |-> pt, ETA |-> ArcSinh(FDiv(p.PZ, pt)), PHI |-> ArcSin(FDiv(p.PY, pt))]

\* second loop: normalise by and shift to the copies PT_0, ETA_0, PHI_0 of the
\* leading constituent
Relative(c, lead) ==
    [PT |-> FDiv(c.PT, lead.PT),
     ETA |-> FSub(c.ETA, lead.ETA),
     PHI |-> FSub(c.PHI, lead.PHI)]

\* fillna left out
NoFillNa(f) == f

\* df_rel.fillna(0, inplace=True): NaN, and only NaN, becomes 0
FillNa(f) == IF IsNaN(f) THEN Fin(0) ELSE f

\* df_rel.fillna(0, inplace=True) on the three columns of a slot
FillNaSlot(c) == [PT |-> FillNa(c.PT), ETA |-> FillNa(c.ETA), PHI |-> FillNa(c.PHI)]

\* the second loop and fillna, given the first loop's columns of slot 0
RelativeRow(row, lead) ==
    [is_signal_new |-> row.is_signal_new,
     R |-> [i \in Slots |-> FillNaSlot(Relative(Kinematics(row.P[i]), lead))]]

get_df_rel_row(row) == RelativeRow(row, Kinematics(row.P[1]))

get_df_rel(d) == [r \in 1..Len(d) |-> get_df_rel_row(d[r])]

\* momentum components of the input: 0, the smallest float, and a few values
MomentaX == {Fin(0), Fin(1), Fin(3 * Prec)}
MomentaY == {Fin(0), Fin(-4 * Prec)}
MomentaZ == {Fin(0), Fin(5 * Prec), Fin(-5 * Prec)}

Particles == [PX : MomentaX, PY : MomentaY, PZ : MomentaZ]

Rows == [is_signal_new : {0, 1}, P : [Slots -> Particles]]

InitRel ==
    /\ pc = "df"
    /\ castMode = "wrap"
    /\ x = <<>>
    /\ x_uint8 = <<>>
    /\ x_rev = <<>>
    /\ x_again = <<>>
    /\ df \in [1..1 -> Rows]
    /\ df_rel = <<>>
    /\ x_img = <<>>
    /\ NoTau
    /\ NoPreprocess

\* every row has the columns PX_i, PY_i, PZ_i of every slot i in range(200)
HasSlotColumns(d) == \A r \in 1..Len(d) : Slots \subseteq DOMAIN d[r].P

\* df_rel = get_df_rel(df); df["PX_i"] of a column the frame lacks raises KeyError
GetDfRel ==
    /\ pc = "df"
    /\ IF HasSlotColumns(df)
       THEN /\ df_rel' = get_df_rel(df)
            /\ pc' = "rel"
       ELSE /\ pc' = "raised"
            /\ UNCHANGED df_rel
    /\ UNCHANGED <<castMode, x_again, x, x_uint8, x_rev, df, x_img, chunkVars, tauVars>>

NextRel == GetDfRel

SpecRel == InitRel /\ [][NextRel]_vars

(***************************************************************************)
(* Claims about the coordinate transform                                   *)
(***************************************************************************)
\* the transverse momentum the first loop computes for a particle
ComputedPt(p) == Kinematics(p).PT

One == Fin(Prec)

\* C6 as stated: the leading particle of every jet comes out as PT_0 = 1,
\* ETA_0 = 0, PHI_0 = 0, also when its transverse momentum is zero.
C6_LeadingAlwaysOneZeroZero ==
    pc = "rel" =>
        \A r \in 1..Len(df) :
            df_rel[r].R[1] = [PT |-> One, ETA |-> Fin(0), PHI |-> Fin(0)]

\* C6 amended: the leading particle comes out as PT_0 = 1, ETA_0 = 0, PHI_0 = 0
\* when its computed transverse momentum is finite and not zero, and as PT_0 = 0,
\* ETA_0 = 0, PHI_0 = 0 otherwise (0/0 is NaN, which fillna turns into 0).
C6_LeadingOneUnlessZeroPt ==
    pc = "rel" =>
        \A r \in 1..Len(df) :
            LET pt0 == ComputedPt(df[r].P[1])
            IN  df_rel[r].R[1] =
                    [PT |-> IF IsFin(pt0) /\ pt0 # Fin(0) THEN One ELSE Fin(0),
                     ETA |-> Fin(0), PHI |-> Fin(0)]

\* C6's case: a leading particle with non-zero pt and pz is normalised to (1, 0, 0).
C6_Witness ==
    /\ pc = "rel"
    /\ ComputedPt(df[1].P[1]) # Fin(0)
    /\ df[1].P[1].PZ # Fin(0)
    /\ df[1].P[1].PY # Fin(0)
    /\ df_rel[1].R[1] = [PT |-> One, ETA |-> Fin(0), PHI |-> Fin(0)]

\* C7: every particle whose transverse momentum is zero (px = py = 0, any pz) has
\* relative ETA = 0 and PHI = 0 after get_df_rel, never NaN and never infinite.
C7_ZeroPtGivesZeroAngles ==
    pc = "rel" =>
        \A r \in 1..Len(df) : \A i \in Slots :
            ComputedPt(df[r].P[i]) = Fin(0) =>
                /\ df_rel[r].R[i].ETA = Fin(0)
                /\ df_rel[r].R[i].PHI = Fin(0)

(***************************************************************************)
(* Rasterizer: get_img_array                                               *)
(*                                                                         *)
(* np.histogram2d(eta, phi, bins=(40, 40), range=([-1, 1], [-1, 1]),       *)
(* weights=pt) as numpy computes it: the bin of a sample is found with     *)
(* searchsorted on the edges, samples on the last edge are moved into the  *)
(* last bin, bincount adds the weights in sample order into a table with   *)
(* one outlier bin on each side, and the outlier bins are cut off.         *)
(***************************************************************************)
\* np.linspace(-1, 1, 41)[i]
Edge(i) == -Prec + i * SubBin

\* np.searchsorted(edges, v, side='left'): the number of edges < v
SearchSortedLeft(v) ==
    IF IsNaN(v) THEN NBins + 1
    ELSE IF IsInf(v) THEN (IF v.v > 0 THEN NBins + 1 ELSE 0)
    ELSE Cardinality({i \in 0..NBins : Edge(i) < v.v})

\* np.searchsorted(edges, v, side='right'): the number of edges <= v; NaN sorts
\* after every number
SearchSortedRight(v) ==
    IF IsNaN(v) THEN NBins + 1
    ELSE IF IsInf(v) THEN (IF v.v > 0 THEN NBins + 1 ELSE 0)
    ELSE Cardinality({i \in 0..NBins : Edge(i) <= v.v})

\* the bin of a sample with outliers clipped into the border bins
BinOfClipped(v) ==
    LET n == SearchSortedRight(v)
    IN  IF n < 1 THEN 1 ELSE IF n > NBins THEN NBins ELSE n

\* the bin of a sample among 0..NBins+1, where 0 and NBins+1 hold the outliers
BinOf(v) ==
    LET n == SearchSortedRight(v)
        on_edge == v = Fin(Edge(NBins))
    IN  IF on_edge THEN n - 1 ELSE n

\* np.ravel_multi_index((Ncount_eta, Ncount_phi), (42, 42))
FlatIndex(c) == BinOf(c.ETA) * (NBins + 2) + BinOf(c.PHI)

\* np.bincount(xy, weights): hist[xy[i]] += weights[i] for i = 0, 1, ...
RECURSIVE Bincount(_, _, _)
Bincount(R, i, h) ==
    IF i > Len(R) THEN h
    ELSE Bincount(R, i + 1, [h EXCEPT ![FlatIndex(R[i])] = FAdd(@, R[i].PT)])

\* np.bincount's table before the first addition: 42 * 42 zeros
ZeroTable == [n \in 0..((NBins + 2) * (NBins + 2) - 1) |-> Fin(0)]

\* hist of one row with the accumulation starting at the second sample
Histogram2dSkipFirst(R) ==
    LET flat == Bincount(R, 2, ZeroTable)
    IN  [a \in 0..(NBins - 1) |->
            [b \in 0..(NBins - 1) |-> flat[(a + 1) * (NBins + 2) + (b + 1)]]]

\* hist of one row: cell [a][b] for a, b in 0..39
Histogram2d(R) ==
    LET flat == Bincount(R, 1, ZeroTable)
    IN  [a \in 0..(NBins - 1) |->
            [b \in 0..(NBins - 1) |-> flat[(a + 1) * (NBins + 2) + (b + 1)]]]

get_img_array(d) == [r \in 1..Len(d) |-> Histogram2d(d[r].R)]

\* the particles of the input: a slot with zero pt (px = py = 0, pz > 0: its eta is
\* +inf), particles of pt 3 and Big units in the same cell, one on the first eta
\* edge and the last phi edge, and one just below the phi range
Constituents ==
    {[PT |-> Fin(0), ETA |-> PInf, PHI |-> Fin(0)],
     [PT |-> Fin(3), ETA |-> Fin(0), PHI |-> Fin(0)],
     [PT |-> Fin(Big), ETA |-> Fin(0), PHI |-> Fin(0)],
     [PT |-> Fin(1), ETA |-> Fin(-Prec), PHI |-> Fin(Prec)],
     [PT |-> Fin(1), ETA |-> Fin(0), PHI |-> Fin(-Prec - 1)]}

\* the bijections of the slots
SlotOrders == {f \in [Slots -> Slots] : \A i, j \in Slots : f[i] = f[j] => i = j}

\* a jet and a reordering of it over the slots
InitImg ==
    /\ pc = "rel"
    /\ castMode = "wrap"
    /\ x = <<>>
    /\ x_uint8 = <<>>
    /\ x_rev = <<>>
    /\ x_again = <<>>
    /\ df = <<>>
    /\ \E R \in [Slots -> Constituents], f \in SlotOrders :
           df_rel = <<[is_signal_new |-> 1, R |-> R],
                      [is_signal_new |-> 1, R |-> [i \in Slots |-> R[f[i]]]]>>
    /\ x_img = <<>>
    /\ NoTau
    /\ NoPreprocess

\* x_train = get_img_array(df_rel_train)
GetImgArray ==
    /\ pc = "rel"
    /\ x_img' = get_img_array(df_rel)
    /\ pc' = "img"
    /\ UNCHANGED <<castMode, x_again, x, x_uint8, x_rev, df, df_rel, chunkVars, tauVars>>

NextImg == GetImgArray

SpecImg == InitImg /\ [][NextImg]_vars

(***************************************************************************)
(* Claims about the rasterizer                                             *)
(***************************************************************************)
Cells == 0..(NBins - 1)

\* the bin of [-1, 1] into which v falls: bin a holds edge a <= v < edge a+1, the
\* last bin also the last edge; -1 when v is outside [-1, 1]
BinFor(v) ==
    IF ~IsFin(v) THEN -1
    ELSE IF v.v < -Prec \/ v.v > Prec THEN -1
    ELSE IF v.v = Prec THEN NBins - 1
    ELSE (v.v + Prec) \div SubBin

\* (eta, phi) inside [-1, 1] x [-1, 1]
InsideRange(c) == BinFor(c.ETA) >= 0 /\ BinFor(c.PHI) >= 0

\* the cell into which a particle falls
CellOf(c) == <<BinFor(c.ETA), BinFor(c.PHI)>>

InCell(c, a, b) == CellOf(c) = <<a, b>>

\* the float sum, in slot order, of the pt of the first n particles of R that
\* fall into cell c
RECURSIVE CellSum(_, _, _)
CellSum(R, n, c) ==
    IF n = 0 THEN Fin(0)
    ELSE IF CellOf(R[n]) = c THEN FAdd(CellSum(R, n - 1, c), R[n].PT)
    ELSE CellSum(R, n - 1, c)

\* the exact sum of the pt of the first n particles of R that fall into cell c
RECURSIVE CellTotal(_, _, _)
CellTotal(R, n, c) ==
    IF n = 0 THEN 0
    ELSE CellTotal(R, n - 1, c) + (IF CellOf(R[n]) = c THEN R[n].PT.v ELSE 0)

\* the cells that hold a particle of R
Occupied(R) == {CellOf(R[i]) : i \in {j \in DOMAIN R : InsideRange(R[j])}}

\* no float addition of the accumulation of R is rounded
SumsExact(R) ==
    \A c \in Occupied(R) : CellSum(R, Len(R), c) = Fin(CellTotal(R, Len(R), c))

\* the exact sum of the first n pt values of R
RECURSIVE PtTotal(_, _)
PtTotal(R, n) == IF n = 0 THEN 0 ELSE PtTotal(R, n - 1) + R[n].PT.v

\* the exact sum of g[0], ..., g[n - 1] of one line of a grid
RECURSIVE LineTotal(_, _)
LineTotal(g, n) == IF n = 0 THEN 0 ELSE LineTotal(g, n - 1) + g[n - 1].v

\* the exact sum of the first n lines of a grid
RECURSIVE GridTotal(_, _)
GridTotal(g, n) ==
    IF n = 0 THEN 0 ELSE GridTotal(g, n - 1) + LineTotal(g[n - 1], NBins)

AllNonZeroInside(R) == \A i \in DOMAIN R : R[i].PT # Fin(0) => InsideRange(R[i])

\* C8: every cell of the 40x40 grid of every jet is the sum (a float sum, in slot
\* order) of the pt of exactly the particles whose (eta, phi) fall into the cell;
\* a particle outside [-1, 1] in eta or phi adds to no cell.
C8_CellIsSumOfItsParticles ==
    pc = "img" =>
        \A r \in 1..Len(df_rel) :
            LET R == df_rel[r].R
                occ == Occupied(R)
            IN  /\ DOMAIN x_img[r] = Cells
                /\ \A a \in Cells :
                       /\ DOMAIN x_img[r][a] = Cells
                       /\ \A b \in Cells :
                              x_img[r][a][b] =
                                  IF <<a, b>> \in occ
                                  THEN CellSum(R, NumSlots, <<a, b>>)
                                  ELSE Fin(0)

\* C8's case: a jet with two particles in one cell, one in another cell and a
\* particle of non-zero pt outside the range has been rasterized.
C8_Witness ==
    /\ pc = "img"
    /\ \E i, j \in Slots :
           /\ i # j
           /\ InCell(df_rel[1].R[i], NBins \div 2, NBins \div 2)
           /\ InCell(df_rel[1].R[j], 0, NBins - 1)
           /\ x_img[1][0][NBins - 1] = df_rel[1].R[j].PT
           /\ x_img[1][NBins \div 2][NBins \div 2] = df_rel[1].R[i].PT
    /\ \E i \in Slots : ~InsideRange(df_rel[1].R[i]) /\ df_rel[1].R[i].PT # Fin(0)

\* C9 as stated: the sum over all cells is <= the sum of the jet's pt values, with
\* equality exactly when every particle with non-zero pt is inside the range.
C9_GridTotalAtMostPtTotal ==
    pc = "img" =>
        \A r \in 1..Len(df_rel) :
            LET R == df_rel[r].R
                grid == GridTotal(x_img[r], NBins)
            IN  /\ grid <= PtTotal(R, NumSlots)
                /\ (grid = PtTotal(R, NumSlots)) <=> AllNonZeroInside(R)

\* C9 amended: for every jet whose float additions are exact, the sum over all
\* cells is <= the sum of the jet's pt values, with equality exactly when every
\* particle with non-zero pt is inside the range.
C9_GridTotalAtMostPtTotalIfExact ==
    pc = "img" =>
        \A r \in 1..Len(df_rel) :
            LET R == df_rel[r].R
                grid == GridTotal(x_img[r], NBins)
            IN  SumsExact(R) =>
                    /\ grid <= PtTotal(R, NumSlots)
                    /\ (grid = PtTotal(R, NumSlots)) <=> AllNonZeroInside(R)

\* C9's case: a jet with exact sums and a particle of non-zero pt outside the
\* range, whose grid holds less than the jet's pt.
C9_Witness ==
    /\ pc = "img"
    /\ SumsExact(df_rel[1].R)
    /\ ~AllNonZeroInside(df_rel[1].R)
    /\ GridTotal(x_img[1], NBins) > 0
    /\ GridTotal(x_img[1], NBins) < PtTotal(df_rel[1].R, NumSlots)

\* C10 as stated: a jet and any reordering of it over the slots give the same grid.
C10_OrderIndependent ==
    pc = "img" => x_img[1] = x_img[2]

\* C10 amended: a jet and any reordering of it give the same grid when the float
\* additions of both orders are exact.
C10_OrderIndependentIfExact ==
    pc = "img" =>
        ((SumsExact(df_rel[1].R) /\ SumsExact(df_rel[2].R)) => x_img[1] = x_img[2])

\* C10's case: a jet and a different order of it, both with exact sums, with two
\* particles in one cell, give the same grid.
C10_Witness ==
    /\ pc = "img"
    /\ df_rel[1].R # df_rel[2].R
    /\ SumsExact(df_rel[1].R) /\ SumsExact(df_rel[2].R)
    /\ \E i, j \in Slots :
           /\ i # j
           /\ df_rel[1].R[i].PT # Fin(0)
           /\ df_rel[1].R[j].PT # Fin(0)
           /\ InsideRange(df_rel[1].R[i])
           /\ CellOf(df_rel[1].R[i]) = CellOf(df_rel[1].R[j])
    /\ x_img[1] = x_img[2]

(***************************************************************************)
(* A jet with one particle                                                 *)
(*                                                                         *)
(* The rows that get_df_rel produces for a jet with few particles: the     *)
(* leading particle at (1, 0, 0), zero-padded slots at (0, 0, 0), slots    *)
(* with px = py = 0 and pz # 0 at pt 0 and infinite eta, and, for jets     *)
(* with more particles, softer particles elsewhere.                        *)
(***************************************************************************)
\* the leading particle after get_df_rel
UnitAtOrigin == [PT |-> Fin(Prec), ETA |-> Fin(0), PHI |-> Fin(0)]

SingleConstituents ==
    {UnitAtOrigin,
     [PT |-> Fin(0), ETA |-> Fin(0), PHI |-> Fin(0)],
     [PT |-> Fin(0), ETA |-> NInf, PHI |-> Fin(0)],
     [PT |-> Fin(0), ETA |-> Fin(SubBin), PHI |-> Fin(-Prec - 1)],
     [PT |-> Fin(Prec \div 2), ETA |-> Fin(-SubBin), PHI |-> Fin(0)]}

InitSingle ==
    /\ pc = "rel"
    /\ castMode = "wrap"
    /\ x = <<>>
    /\ x_uint8 = <<>>
    /\ x_rev = <<>>
    /\ x_again = <<>>
    /\ df = <<>>
    /\ \E R \in [Slots -> SingleConstituents] :
           df_rel = <<[is_signal_new |-> 1, R |-> R]>>
    /\ x_img = <<>>
    /\ NoTau
    /\ NoPreprocess

SpecSingle == InitSingle /\ [][NextImg]_vars

\* the only particle of R with non-zero pt has pt = 1 at (eta, phi) = (0, 0)
OnlyUnitAtOrigin(R) ==
    \E i \in DOMAIN R :
        /\ R[i] = UnitAtOrigin
        /\ \A j \in DOMAIN R : j # i => R[j].PT = Fin(0)

\* C11: the grid of a jet whose only particle of non-zero pt has pt = 1 at
\* (eta, phi) = (0, 0) sums to 1, holds 1 in the cell [20][20] next to the centre
\* of the 40x40 grid (the cell whose lower edges are 0) and 0 in every other cell.
C11_SingleParticleInCentreBin ==
    pc = "img" =>
        \A r \in 1..Len(df_rel) :
            OnlyUnitAtOrigin(df_rel[r].R) =>
                /\ GridTotal(x_img[r], NBins) = Prec
                /\ \A a, b \in Cells :
                       x_img[r][a][b] =
                           IF a = NBins \div 2 /\ b = NBins \div 2
                           THEN Fin(Prec) ELSE Fin(0)

\* C11's case: a jet of the particle (1, 0, 0), a zero-padded slot and a slot of
\* zero pt and infinite eta has been rasterized, and the centre cell holds 1.
C11_Witness ==
    /\ pc = "img"
    /\ OnlyUnitAtOrigin(df_rel[1].R)
    /\ \E i, j \in Slots :
           /\ df_rel[1].R[i] = [PT |-> Fin(0), ETA |-> Fin(0), PHI |-> Fin(0)]
           /\ df_rel[1].R[j].ETA = NInf
    /\ x_img[1][NBins \div 2][NBins \div 2] = Fin(Prec)

(***************************************************************************)
(* Chunked preprocessing                                                   *)
(*                                                                         *)
(* preprocess reads the table in slices of chunksize rows, starting at     *)
(* 0, chunksize, 2 * chunksize, ... below n_examples, runs get_df_rel and  *)
(* get_img_array on each slice, and concatenates the images and labels.    *)
(* np.stack and np.concatenate raise ValueError on an empty list.          *)
(***************************************************************************)
Min(a, b) == IF a < b THEN a ELSE b

\* pd.read_hdf(df_path, "table", start=a, stop=b): the rows a..b-1 (from 0) that
\* the table has
read_hdf(table, a, b) == SubSeq(table, a + 1, Min(b, Len(table)))

\* the labels of a chunk in reverse row order
is_signal_new_reversed(d) == [r \in 1..Len(d) |-> d[Len(d) + 1 - r].is_signal_new]

\* df_rel.is_signal_new.values
is_signal_new_values(d) == [r \in 1..Len(d) |-> d[r].is_signal_new]

\* np.concatenate(list) along the first axis
RECURSIVE concatenate(_)
concatenate(list) ==
    IF list = <<>> THEN <<>> ELSE Head(list) \o concatenate(Tail(list))

\* the momentum of a zero-padded slot
ZeroMomentum == [PX |-> Fin(0), PY |-> Fin(0), PZ |-> Fin(0)]

\* two jets of the table: a signal jet of one particle, and a background jet
\* of two particles
SignalJet ==
    [is_signal_new |-> 1,
     P |-> [i \in Slots |->
               IF i = 1 THEN [PX |-> Fin(3 * Prec), PY |-> Fin(-4 * Prec), PZ |-> Fin(0)]
               ELSE ZeroMomentum]]

BackgroundJet ==
    [is_signal_new |-> 0,
     P |-> [i \in Slots |->
               IF i = 1 THEN [PX |-> Fin(3 * Prec), PY |-> Fin(-4 * Prec), PZ |-> Fin(0)]
               ELSE IF i = 2
               THEN [PX |-> Fin(3 * Prec), PY |-> Fin(-4 * Prec), PZ |-> Fin(5 * Prec)]
               ELSE ZeroMomentum]]

Tables == UNION {[1..n -> {SignalJet, BackgroundJet}] : n \in 0..MaxRows}

InitPre ==
    /\ pc = "loop"
    /\ castMode = "wrap"
    /\ x = <<>>
    /\ x_uint8 = <<>>
    /\ x_rev = <<>>
    /\ x_again = <<>>
    /\ df = <<>>
    /\ df_rel = <<>>
    /\ x_img = <<>>
    /\ NoTau
    /\ h5 \in Tables
    /\ n_examples \in 0..MaxExamples
    /\ chunksize \in 1..MaxChunk
    /\ start = 0
    /\ x_chunks = <<>>
    /\ y_chunks = <<>>
    /\ x_test = <<>>
    /\ y_test = <<>>

\* one iteration of the loop over range(0, n_examples, chunksize)
PreprocessChunk ==
    /\ pc = "loop"
    /\ start < n_examples
    /\ df' = read_hdf(h5, start, start + chunksize)
    /\ df_rel' = get_df_rel(df')
    /\ IF Len(df_rel') = 0
       THEN \* np.stack(hists) of no histogram raises
            /\ pc' = "raised"
            /\ UNCHANGED <<start, x_chunks, y_chunks>>
       ELSE /\ x_chunks' = Append(x_chunks, get_img_array(df_rel'))
            /\ y_chunks' = Append(y_chunks, is_signal_new_values(df_rel'))
            /\ start' = start + chunksize
            /\ pc' = "loop"
    /\ UNCHANGED <<castMode, x_again, x, x_uint8, x_rev, x_img, h5, n_examples, chunksize,
                   x_test, y_test, tauVars>>

\* return np.concatenate(x), np.concatenate(y)
PreprocessReturn ==
    /\ pc = "loop"
    /\ start >= n_examples
    /\ IF x_chunks = <<>>
       THEN \* np.concatenate of no array raises
            /\ pc' = "raised"
            /\ UNCHANGED <<x_test, y_test>>
       ELSE /\ x_test' = concatenate(x_chunks)
            /\ y_test' = concatenate(y_chunks)
            /\ pc' = "returned"
    /\ UNCHANGED <<castMode, x_again, x, x_uint8, x_rev, df, df_rel, x_img, h5, n_examples,
                   chunksize, start, x_chunks, y_chunks, tauVars>>

NextPre == PreprocessChunk \/ PreprocessReturn

SpecPre == InitPre /\ [][NextPre]_vars

\* the image of each jet of the table
ImageOf == [row \in {SignalJet, BackgroundJet} |-> Histogram2d(get_df_rel_row(row).R)]

\* xs and ys have the same length, and xs[k] is the image and ys[k] the label of
\* the k-th row of the table
Aligned(xs, ys) ==
    /\ Len(xs) = Len(ys)
    /\ Len(xs) <= Len(h5)
    /\ \A k \in 1..Len(xs) :
           /\ xs[k] = ImageOf[h5[k]]
           /\ ys[k] = h5[k].is_signal_new

\* C12: after every iteration of the chunk loop the images and the labels
\* collected so far have the same length and the k-th image is the image of the
\* k-th row read, whose label is the k-th label; the same holds for the pair
\* that preprocess returns.
C12_LabelsAligned ==
    /\ Aligned(concatenate(x_chunks), concatenate(y_chunks))
    /\ pc = "returned" =>
           /\ x_test = concatenate(x_chunks)
           /\ Aligned(x_test, y_test)

\* C12's case: preprocess has returned at least three rows read in at least two
\* chunks, among them a signal jet followed by a background jet.
C12_Witness ==
    /\ pc = "returned"
    /\ Len(x_chunks) >= 2
    /\ Len(x_test) >= 3
    /\ Len(x_chunks[1]) >= 2
    /\ h5[1] = SignalJet
    /\ h5[2] = BackgroundJet
    /\ y_test[1] = 1
    /\ y_test[2] = 0
    /\ x_test[1] # x_test[2]

\* C17: every call of preprocess returns, and returns exactly
\* min(n_examples, number of rows of the table) images and labels.
C17_ReturnsMinOfRequestedAndRows ==
    pc # "loop" =>
        /\ pc = "returned"
        /\ Len(x_test) = Min(n_examples, Len(h5))
        /\ Len(y_test) = Min(n_examples, Len(h5))

\* a call whose last chunk reaches beyond n_examples has returned more than
\* n_examples rows
C17_ReadsPastRequested ==
    /\ pc = "returned"
    /\ n_examples % chunksize # 0
    /\ Len(x_test) > n_examples

(***************************************************************************)
(* Records with a different number of particle slots                       *)
(*                                                                         *)
(* get_df_rel and get_img_array address the columns of the slots           *)
(* 0..199 by name; a frame may lack some of them or have more.             *)
(***************************************************************************)
SlotMomenta ==
    {ZeroMomentum,
     [PX |-> Fin(3 * Prec), PY |-> Fin(-4 * Prec), PZ |-> Fin(0)],
     [PX |-> Fin(3 * Prec), PY |-> Fin(-4 * Prec), PZ |-> Fin(5 * Prec)]}

\* a frame of one record with one slot fewer than, as many as, or one slot more
\* than range(200)
InitSlots ==
    /\ pc = "df"
    /\ castMode = "wrap"
    /\ x = <<>>
    /\ x_uint8 = <<>>
    /\ x_rev = <<>>
    /\ x_again = <<>>
    /\ \E n \in (NumSlots - 1)..(NumSlots + 1) :
           \E P \in [1..n -> SlotMomenta] : df = <<[is_signal_new |-> 1, P |-> P]>>
    /\ df_rel = <<>>
    /\ x_img = <<>>
    /\ NoTau
    /\ NoPreprocess

NextSlots == GetDfRel \/ GetImgArray

SpecSlots == InitSlots /\ [][NextSlots]_vars

\* C13: a record whose slot count is not exactly 200 makes get_df_rel followed by
\* get_img_array fail: neither of them completes on such a record.
C13_WrongSlotCountFails ==
    pc \in {"rel", "img"} => \A r \in 1..Len(df) : Len(df[r].P) = NumSlots

\* a record with one slot more than 200 has gone through the pipeline, and its
\* image is the image of the record without the last slot
C13_ExtraSlotTruncated ==
    /\ pc = "img"
    /\ Len(df[1].P) = NumSlots + 1
    /\ df[1].P[NumSlots + 1] # ZeroMomentum
    /\ x_img[1] = Histogram2d(get_df_rel_row([df[1] EXCEPT !.P = SubSeq(@, 1, NumSlots)]).R)

\* a record with one slot fewer than 200 has made get_df_rel raise
C13_MissingSlotRaises ==
    \A r \in 1..Len(df) : Len(df[r].P) < NumSlots => pc \in {"df", "raised"}

(***************************************************************************)
(* Encoding a decoded image again                                          *)
(*                                                                         *)
(* A stored image holds any of the 256 codes.  reverse_transform computes  *)
(* the intensity as a float, whose logarithm is the rounded value of       *)
(* (q - 1) / 255 * 15 - 10, and transform truncates what it maps back.     *)
(***************************************************************************)
Codes == 0..(Uint8Mod - 1)

\* an image of one pixel loaded from the file
InitStored ==
    /\ pc = "encoded"
    /\ castMode \in CastModes
    /\ x = <<>>
    /\ x_uint8 \in [1..1 -> Codes]
    /\ x_rev = <<>>
    /\ x_again = <<>>
    /\ df = <<>>
    /\ df_rel = <<>>
    /\ x_img = <<>>
    /\ NoTau
    /\ NoPreprocess

\* transform(reverse_transform(x_uint8))
TransformAgain ==
    /\ pc = "decoded"
    /\ x_again' = [i \in 1..Len(x_rev) |-> transform(x_rev[i], castMode)]
    /\ pc' = "again"
    /\ UNCHANGED <<castMode, x, x_uint8, x_rev, df, df_rel, x_img, chunkVars, tauVars>>

NextStored == ReverseTransform \/ TransformAgain

SpecStored == InitStored /\ [][NextStored]_vars

\* C18: for every code q in 0..255, transform(reverse_transform(q)) = q.
C18_ReEncodingIsIdentity ==
    pc = "again" => x_again = x_uint8

\* a code that comes back one lower: the float logarithm of the decoded value is
\* below the exact one and transform truncates
C18_CodeComesBackLower ==
    /\ pc = "again"
    /\ x_uint8[1] = 2
    /\ x_again[1] = 1

\* the codes 0 and 1 and 255 come back unchanged
C18_EndsComeBack ==
    (pc = "again" /\ x_uint8[1] \in {0, 1, Uint8Mod - 1}) => x_again = x_uint8

(***************************************************************************)
(* Tau reconstruction efficiencies: lookup in the efficiency table         *)
(*                                                                         *)
(* |eta| and pt are floats in units of 1/EtaSub and 1/PtSub of a bin       *)
(* width, so that the edges are the multiples of EtaSub and PtSub.  A      *)
(* table is indexed from 0 like the numpy array: table[eta bin][pt bin].   *)
(***************************************************************************)
\* the bin edges in |eta| and in pt
EX == [i \in 0..(NEtaEdges - 1) |-> i * EtaSub]
EY == [j \in 0..(NPtEdges - 1) |-> j * PtSub]

\* the number of entries of a numpy array along its first axis
Size(a) == Cardinality(DOMAIN a)

\* np.digitize(v, E): the number of edges <= v; NaN sorts after every number
digitize(v, E) ==
    IF IsNaN(v) THEN Size(E)
    ELSE IF IsInf(v) THEN (IF v.v > 0 THEN Size(E) ELSE 0)
    ELSE Cardinality({i \in DOMAIN E : E[i] <= v.v})

\* pd.cut(v, E): the bin i with E[i] < v <= E[i + 1], or -1 for the NaN that
\* pd.cut gives a value in no bin
cut(v, E) ==
    IF ~IsFin(v) THEN -1
    ELSE IF v.v <= E[0] \/ v.v > E[Size(E) - 1] THEN -1
    ELSE Cardinality({i \in DOMAIN E : E[i] < v.v}) - 1

\* np.append(h, h[-1:], axis=0)
AppendLastRow(h) ==
    [a \in 0..Size(h) |-> IF a < Size(h) THEN h[a] ELSE h[Size(h) - 1]]

\* the table as it is
KeepRows(h) == h

\* np.append(h[0:1], h, axis=0)
PrependFirstRow(h) ==
    [a \in 0..Size(h) |-> IF a = 0 THEN h[0] ELSE h[a - 1]]

\* np.append(h, h[:,-1:], axis=1)
AppendLastColumn(h) == [a \in DOMAIN h |-> AppendLastRow(h[a])]

\* np.append(h[:,0:1], h, axis=1)
PrependFirstColumn(h) == [a \in DOMAIN h |-> PrependFirstRow(h[a])]

\* the table with the overflow and underflow bins added
Padded(eff_hist) ==
    PrependFirstColumn(AppendLastColumn(PrependFirstRow(AppendLastRow(eff_hist))))

\* h[a, b] is inside the array
InBounds(h, a, b) == a \in DOMAIN h /\ b \in DOMAIN h[a]

\* the looked-up efficiencies of the taus with the given pt and |eta|
pred_proba_from_hist(pt_arr, abseta, eff_hist) ==
    LET h == Padded(eff_hist)
    IN  [i \in 1..Len(abseta) |-> h[digitize(abseta[i], EX)][digitize(pt_arr[i], EY)]]

\* every lookup of pred_proba_from_hist is inside the padded table
LookupsInBounds(pt_arr, abseta, eff_hist) ==
    \A i \in 1..Len(abseta) :
        InBounds(Padded(eff_hist), digitize(abseta[i], EX), digitize(pt_arr[i], EY))

\* an efficiency table with a different entry in every bin
DistinctHist ==
    [a \in 0..(NEtaEdges - 2) |-> [b \in 0..(NPtEdges - 2) |-> Fin(a * (NPtEdges - 1) + b)]]

\* |eta| from 0 to just above the last edge, infinite and NaN
AbsEtas == {Fin(v) : v \in 0..(EX[NEtaEdges - 1] + 1)} \cup {PInf, NaN}

\* pt from just below the first to just above the last edge, infinite and NaN
Pts == {Fin(v) : v \in (-1)..(EY[NPtEdges - 1] + 1)} \cup {PInf, NInf, NaN}

InitHist ==
    /\ pc = "hist"
    /\ castMode = "wrap"
    /\ x = <<>>
    /\ x_uint8 = <<>>
    /\ x_rev = <<>>
    /\ x_again = <<>>
    /\ df = <<>>
    /\ df_rel = <<>>
    /\ x_img = <<>>
    /\ NoPreprocess
    /\ df_tau = <<>>
    /\ truth_pt \in [1..1 -> Pts]
    /\ truth_abseta \in [1..1 -> AbsEtas]
    /\ hist_train = DistinctHist
    /\ proba_test = <<>>
    /\ mse = <<>>

\* proba_test = pred_proba_from_hist(X_test.truth_pt, X_test.truth_eta.abs(),
\* hist_train); an index outside the padded table raises IndexError
PredProbaFromHist ==
    /\ pc = "hist"
    /\ IF LookupsInBounds(truth_pt, truth_abseta, hist_train)
       THEN /\ proba_test' = pred_proba_from_hist(truth_pt, truth_abseta, hist_train)
            /\ pc' = "proba"
       ELSE /\ pc' = "raised"
            /\ UNCHANGED proba_test
    /\ UNCHANGED <<castMode, x, x_uint8, x_rev, x_again, df, df_rel, x_img, chunkVars,
                   df_tau, truth_pt, truth_abseta, hist_train, mse>>

NextHist == PredProbaFromHist

SpecHist == InitHist /\ [][NextHist]_vars

\* the bins of eff_hist that the duplicated edge bins allow for v: the first bin
\* below the first edge, the last bin above the last edge, any bin otherwise
EdgeBins(v, E) ==
    IF IsNaN(v) THEN 0..(Size(E) - 2)
    ELSE IF IsInf(v) THEN (IF v.v > 0 THEN {Size(E) - 2} ELSE {0})
    ELSE IF v.v < E[0] THEN {0}
    ELSE IF v.v > E[Size(E) - 1] THEN {Size(E) - 2}
    ELSE 0..(Size(E) - 2)

OutOfRange(v, E) == Cardinality(EdgeBins(v, E)) = 1

\* C15: for every pt and |eta|, pred_proba_from_hist looks up an index pair
\* inside the padded table and does not raise, and a value below the first or
\* above the last edge in one dimension gets the efficiency of the first,
\* respectively the last, bin of eff_hist in that dimension.
C15_EdgeBinsDuplicated ==
    /\ pc # "raised"
    /\ pc = "proba" =>
           \A i \in 1..Len(truth_pt) :
               /\ digitize(truth_abseta[i], EX) \in 0..NEtaEdges
               /\ digitize(truth_pt[i], EY) \in 0..NPtEdges
               /\ \E a \in EdgeBins(truth_abseta[i], EX), b \in EdgeBins(truth_pt[i], EY) :
                      proba_test[i] = hist_train[a][b]

\* C15's case: a tau above the last |eta| edge and below the first pt edge has
\* been given the efficiency of the last |eta| bin and the first pt bin.
C15_Witness ==
    /\ pc = "proba"
    /\ IsFin(truth_abseta[1])
    /\ truth_abseta[1].v > EX[NEtaEdges - 1]
    /\ IsFin(truth_pt[1])
    /\ truth_pt[1].v < EY[0]
    /\ proba_test[1] = hist_train[NEtaEdges - 2][0]

\* the value is inside the binned range and GetEff puts it into a bin
Binned(v, E) == cut(v, E) >= 0

\* C16: for every (pt, |eta|) that GetEff assigns to a bin, the edges included,
\* pred_proba_from_hist returns the entry of eff_hist of that (eta bin, pt bin).
C16_LookupAgreesWithGetEff ==
    pc = "proba" =>
        \A i \in 1..Len(truth_pt) :
            (Binned(truth_abseta[i], EX) /\ Binned(truth_pt[i], EY)) =>
                proba_test[i] = hist_train[cut(truth_abseta[i], EX)][cut(truth_pt[i], EY)]

\* a tau with pt on the inner edge EY[1] has been given the efficiency of the
\* pt bin above the one in which GetEff counts it
C16_EdgeLooksUpNextBin ==
    /\ pc = "proba"
    /\ truth_pt[1] = Fin(EY[1])
    /\ truth_abseta[1] = Fin(1)
    /\ cut(truth_pt[1], EY) = 0
    /\ proba_test[1] = hist_train[0][1]

\* between the edges the lookup agrees with GetEff
C16_AgreesOffEdges ==
    pc = "proba" =>
        \A i \in 1..Len(truth_pt) :
            (/\ Binned(truth_abseta[i], EX) /\ truth_abseta[i].v % EtaSub # 0
             /\ Binned(truth_pt[i], EY) /\ truth_pt[i].v % PtSub # 0) =>
                proba_test[i] = hist_train[cut(truth_abseta[i], EX)][cut(truth_pt[i], EY)]

(***************************************************************************)
(* Tau reconstruction efficiencies: the challenge measure                  *)
(*                                                                         *)
(* A row of df is a tau: its dataset number, pt, eta and the flag          *)
(* reco_matched.  Flags, probabilities and efficiencies are floats in      *)
(* units of 1/Prec.                                                        *)
(***************************************************************************)
\* abs(v)
FAbs(v) == IF IsNaN(v) THEN NaN ELSE [k |-> v.k, v |-> IF v.v < 0 THEN -v.v ELSE v.v]

\* the float sum of the non-NaN values y[k] of the first n rows of X that pd.cut
\* puts into the bin (a, b); pd.concat pairs X and y by position, a row beyond
\* the end of y has the value NaN, which mean() skips
RECURSIVE BinSum(_, _, _, _, _)
BinSum(X, y, n, a, b) ==
    IF n = 0 THEN Fin(0)
    ELSE IF /\ cut(FAbs(X[n].truth_eta), EX) = a
            /\ cut(X[n].truth_pt, EY) = b
            /\ n <= Len(y)
            /\ ~IsNaN(y[n])
         THEN FAdd(BinSum(X, y, n - 1, a, b), y[n])
         ELSE BinSum(X, y, n - 1, a, b)

\* the number of values that BinSum adds
BinCount(X, y, a, b) ==
    Cardinality({k \in 1..Min(Len(X), Len(y)) :
                    /\ cut(FAbs(X[k].truth_eta), EX) = a
                    /\ cut(X[k].truth_pt, EY) = b
                    /\ ~IsNaN(y[k])})

\* df.groupby([etabins, ptbins])[y.name].mean().unstack(): the mean of y per
\* (eta bin, pt bin), NaN for a bin without a value
GetEff(X, y) ==
    [a \in 0..(NEtaEdges - 2) |->
        [b \in 0..(NPtEdges - 2) |->
            FDiv(BinSum(X, y, Len(X), a, b), Fin(BinCount(X, y, a, b) * Prec))]]

\* the rows of a frame for which the mask holds, in the frame's order
RECURSIVE Select(_, _)
Select(d, mask) ==
    IF d = <<>> THEN <<>>
    ELSE (IF mask[1] THEN <<Head(d)>> ELSE <<>>)
             \o Select(Tail(d), Tail(mask))

\* df["mcChannelNumber"] == mcChannelNumber
ChannelIs(d, c) == [k \in 1..Len(d) |-> d[k].mcChannelNumber = c]

\* the column reco_matched as floats
reco_matched_values(d) == [k \in 1..Len(d) |-> Fin(d[k].reco_matched * Prec)]

\* (actual_hist.values - pred_hist.values) ** 2
squared_diff(actual_hist, pred_hist) ==
    [a \in DOMAIN actual_hist |->
        [b \in DOMAIN actual_hist[a] |-> FSquare(FSub(actual_hist[a][b], pred_hist[a][b]))]]

\* np.where(~np.isnan(t), t, 0)
NanToZero(t) ==
    [a \in DOMAIN t |-> [b \in DOMAIN t[a] |-> IF IsNaN(t[a][b]) THEN Fin(0) ELSE t[a][b]]]

\* the float sum of the first n entries of a line
RECURSIVE SumLine(_, _)
SumLine(line, n) == IF n = 0 THEN Fin(0) ELSE FAdd(SumLine(line, n - 1), line[n - 1])

\* t.sum() of the first n lines
RECURSIVE SumTable(_, _)
SumTable(t, n) ==
    IF n = 0 THEN Fin(0)
    ELSE FAdd(SumTable(t, n - 1), SumLine(t[n - 1], Size(t[n - 1])))

\* the value that mean_squared_error prints for the dataset number c
mean_squared_error(X, df_mcChannelNumber, proba, c) ==
    LET df1 == Select(df_tau, ChannelIs(df_tau, c))
        df2 == Select(X, [k \in 1..Len(X) |-> df_mcChannelNumber[k] = c])
        actual_hist == GetEff(df1, reco_matched_values(df1))
        pred_hist == GetEff(df2, proba)
        t == NanToZero(squared_diff(actual_hist, pred_hist))
    IN  SumTable(t, Size(t))

\* df["mcChannelNumber"].unique()
Channels(d) == {d[k].mcChannelNumber : k \in 1..Len(d)}

\* taus of two datasets, in two bins and on the lowest pt edge, with eta of
\* either sign
Taus ==
    [mcChannelNumber : {1, 2},
     truth_pt : {Fin(0), Fin(1), Fin(PtSub + 1)},
     truth_eta : {Fin(1), Fin(-(EtaSub + 1))},
     reco_matched : {0, 1}]

Probabilities == {Fin(0), Fin(Prec \div 2), Fin(Prec)}

InitEff ==
    /\ pc = "proba"
    /\ castMode = "wrap"
    /\ x = <<>>
    /\ x_uint8 = <<>>
    /\ x_rev = <<>>
    /\ x_again = <<>>
    /\ df = <<>>
    /\ df_rel = <<>>
    /\ x_img = <<>>
    /\ NoPreprocess
    /\ df_tau \in [1..MaxTaus -> Taus]
    /\ truth_pt = <<>>
    /\ truth_abseta = <<>>
    /\ hist_train = <<>>
    /\ proba_test \in [1..MaxTaus -> Probabilities]
    /\ mse = <<>>

\* mean_squared_error(X, df_mcChannelNumber, proba) with the taus of df as X
MeanSquaredError ==
    /\ pc = "proba"
    /\ mse' = [c \in Channels(df_tau) |->
                  mean_squared_error(df_tau,
                      [k \in 1..Len(df_tau) |-> df_tau[k].mcChannelNumber], proba_test, c)]
    /\ pc' = "mse"
    /\ UNCHANGED <<castMode, x, x_uint8, x_rev, x_again, df, df_rel, x_img, chunkVars,
                   df_tau, truth_pt, truth_abseta, hist_train, proba_test>>

NextEff == MeanSquaredError

SpecEff == InitEff /\ [][NextEff]_vars

\* the bins in which both tables of the dataset number c hold an efficiency, the
\* predicted table made of the probabilities of the taus of that dataset
Compared(c) ==
    LET df1 == Select(df_tau, ChannelIs(df_tau, c))
        actual_hist == GetEff(df1, reco_matched_values(df1))
        pred_hist == GetEff(df1, Select(proba_test, ChannelIs(df_tau, c)))
    IN  {ab \in (0..(NEtaEdges - 2)) \X (0..(NPtEdges - 2)) :
            ~IsNaN(actual_hist[ab[1]][ab[2]]) /\ ~IsNaN(pred_hist[ab[1]][ab[2]])}

\* the sum of the squared differences of the two tables of the dataset number c
SquaredSum(c) ==
    LET df1 == Select(df_tau, ChannelIs(df_tau, c))
        t == NanToZero(squared_diff(GetEff(df1, reco_matched_values(df1)),
                                    GetEff(df1, Select(proba_test, ChannelIs(df_tau, c)))))
    IN  SumTable(t, Size(t))

\* C14: for each dataset number the value that mean_squared_error reports is the
\* sum of the per-bin squared differences between the predicted and the true
\* efficiencies divided by the number of bins compared.
C14_ReportsMeanOverBins ==
    pc = "mse" =>
        \A c \in Channels(df_tau) :
            Compared(c) # {} =>
                mse[c] = FDiv(SquaredSum(c), Fin(Cardinality(Compared(c)) * Prec))

\* a dataset with two bins compared, one of them predicted wrongly, for which the
\* sum of the squared differences has been reported
C14_SumReported ==
    /\ pc = "mse"
    /\ \E c \in Channels(df_tau) :
           /\ Cardinality(Compared(c)) = 2
           /\ SquaredSum(c) = Fin(Prec)
           /\ mse[c] = Fin(Prec)

\* a dataset whose taus are not the first rows of X has been compared with the
\* probabilities of other taus: what is reported is not even the sum of its
\* squared differences
C14_OtherTausProbabilities ==
    /\ pc = "mse"
    /\ \E c \in Channels(df_tau) :
           /\ df_tau[1].mcChannelNumber # c
           /\ mse[c] # SquaredSum(c)

====
